---- MODULE Spec2Model ----
(***************************************************************************)
(* upublish: a small HTTP server that renders documents into a page        *)
(* template, caches the rendered pages and reloads the template on SIGUSR1.*)
(*                                                                         *)
(* The repository holds two programs of package main:                      *)
(*   src/main.go           handler `renderer`   (build "main")             *)
(*   src/unnamed/part_000  handler `renderPage` (build "upublish"), which  *)
(*                         adds the index listings and the reload signal.  *)
(* Both are modelled; `build` says which one the process runs.             *)
(*                                                                         *)
(* Byte strings are sequences of numbers (bytes); names, paths and header  *)
(* values are sequences of one-character strings.                          *)
(* A run follows one client: its requests carry the same If-None-Match and *)
(* Accept-Encoding values, chosen in the initial state.                    *)
(***************************************************************************)
EXTENDS Integers, Sequences, FiniteSets, TLC

\* ------------------------------------------------------------ bounds
MaxRequests == 2      \* requests accepted during one run
NumWorkers == 2       \* request goroutines running at the same time

Workers == 1..NumWorkers

\* ------------------------------------------------------------ strings
RECURSIVE LastIndex(_, _, _)
\* strings.LastIndex(s, c) over positions 1..i; 0 when c does not occur
LastIndex(s, c, i) ==
  IF i = 0 THEN 0
  ELSE IF s[i] = c THEN i ELSE LastIndex(s, c, i - 1)

\* path.Split: everything up to and including the final slash, and the rest
Split(s) ==
  LET i == LastIndex(s, "/", Len(s))
  IN  <<SubSeq(s, 1, i), SubSeq(s, i + 1, Len(s))>>

RECURSIVE Elements(_, _, _)
\* the slash-separated elements of s from position i on; cur is the element
\* being read
Elements(s, i, cur) ==
  IF i > Len(s) THEN <<cur>>
  ELSE IF s[i] = "/" THEN <<cur>> \o Elements(s, i + 1, <<>>)
  ELSE Elements(s, i + 1, Append(cur, s[i]))

RECURSIVE CleanElems(_, _, _, _)
\* path.Clean's element pass: drops empty and "." elements, ".." removes the
\* element before it (kept at the front of a path that is not rooted)
CleanElems(es, i, out, rooted) ==
  IF i > Len(es) THEN out
  ELSE LET e == es[i]
       IN  IF e = <<>> \/ e = <<".">> THEN CleanElems(es, i + 1, out, rooted)
           ELSE IF e = <<".", ".">>
             THEN IF Len(out) > 0 /\ out[Len(out)] # <<".", ".">>
                    THEN CleanElems(es, i + 1, SubSeq(out, 1, Len(out) - 1), rooted)
                  ELSE IF rooted THEN CleanElems(es, i + 1, out, rooted)
                  ELSE CleanElems(es, i + 1, Append(out, e), rooted)
           ELSE CleanElems(es, i + 1, Append(out, e), rooted)

RECURSIVE JoinWith(_, _)
\* strings.Join(es, "/")
JoinWith(es, i) ==
  IF i > Len(es) THEN <<>>
  ELSE IF i = Len(es) THEN es[i]
  ELSE es[i] \o <<"/">> \o JoinWith(es, i + 1)

\* path.Clean
Clean(s) ==
  IF s = <<>> THEN <<".">>
  ELSE LET rooted == s[1] = "/"
           es == CleanElems(Elements(s, 1, <<>>), 1, <<>>, rooted)
           body == JoinWith(es, 1)
       IN  IF rooted THEN <<"/">> \o body
           ELSE IF body = <<>> THEN <<".">> ELSE body

RECURSIVE NonEmpty(_, _)
NonEmpty(es, i) ==
  IF i > Len(es) THEN <<>>
  ELSE IF es[i] = <<>> THEN NonEmpty(es, i + 1)
  ELSE <<es[i]>> \o NonEmpty(es, i + 1)

\* path.Join: the non-empty elements joined by slashes, then cleaned; the
\* empty string when every element is empty
Join(es) ==
  LET ne == NonEmpty(es, 1)
  IN  IF ne = <<>> THEN <<>> ELSE Clean(JoinWith(ne, 1))

\* strings.Contains
Contains(s, sub) ==
  \E i \in 0..(Len(s) - Len(sub)) : SubSeq(s, i + 1, i + Len(sub)) = sub

\* case folding of one character (the letters that occur in fingerprints)
Lower(c) ==
  CASE c = "A" -> "a"
    [] c = "B" -> "b"
    [] OTHER -> c

\* strings.EqualFold
EqualFold(s, t) ==
  /\ Len(s) = Len(t)
  /\ \A i \in 1..Len(s) : Lower(s[i]) = Lower(t[i])

\* ------------------------------------------------------------ gzip
RECURSIVE RunLen(_, _)
\* length of the run of equal bytes starting at position i
RunLen(s, i) ==
  IF i < Len(s) /\ s[i + 1] = s[i] THEN 1 + RunLen(s, i + 1) ELSE 1

RECURSIVE Deflate(_, _)
\* the compressed stream: (run length, byte) pairs
Deflate(s, i) ==
  IF i > Len(s) THEN <<>>
  ELSE LET n == RunLen(s, i) IN <<n, s[i]>> \o Deflate(s, i + n)

RECURSIVE Inflate(_, _)
Inflate(z, i) ==
  IF i + 1 > Len(z) THEN <<>>
  ELSE [k \in 1..z[i] |-> z[i + 1]] \o Inflate(z, i + 2)

GzipMagic == <<31, 139>>

\* gzip.Writer after Close: header, compressed stream, length trailer
Gzip(s) == GzipMagic \o Deflate(s, 1) \o <<Len(s) % 256>>

\* what a client's gzip reader gives back
Gunzip(z) == Inflate(SubSeq(z, 3, Len(z) - 1), 1)


RECURSIVE IndexOf(_, _, _)
\* bytes.Index(b, sep), searching from position i; 0 when sep does not occur
IndexOf(b, sep, i) ==
  IF i + Len(sep) - 1 > Len(b) THEN 0
  ELSE IF SubSeq(b, i, i + Len(sep) - 1) = sep THEN i
  ELSE IndexOf(b, sep, i + 1)

RECURSIVE BytesSplit(_, _)
\* bytes.Split(b, sep): the pieces of b between the occurrences of sep
BytesSplit(b, sep) ==
  LET i == IndexOf(b, sep, 1)
  IN  IF i = 0 THEN <<b>>
      ELSE <<SubSeq(b, 1, i - 1)>> \o BytesSplit(SubSeq(b, i + Len(sep), Len(b)), sep)

\* ------------------------------------------------------------ configuration
\* the flags, at the values the specification's example uses (one letter each)
root == <<"/", "r">>            \* filepath.Abs(*optPath)
optHomeDir == <<"b">>           \* -home blog
optDefault == <<"i">>           \* -default index
optExt == <<"m">>               \* -ext md
JsonExt == <<".", "j", "s", "o", "n">>

\* the literal "{{content}}"
Placeholder == <<123, 123, 99, 111, 110, 116, 101, 110, 116, 125, 125>>

\* ------------------------------------------------------------ environment
\* What the template file may hold when it is read: two valid templates, one
\* without the placeholder, one with two placeholders, and an unreadable file.
TemplateA == [readable |-> TRUE, bytes |-> <<1>> \o Placeholder \o <<2>>]
TemplateB == [readable |-> TRUE, bytes |-> <<3, 3>> \o Placeholder \o <<4>>]
TemplateNone == [readable |-> TRUE, bytes |-> <<5>>]
TemplateTwice ==
  [readable |-> TRUE, bytes |-> <<6>> \o Placeholder \o <<6, 6>> \o Placeholder \o <<9>>]
TemplateGone == [readable |-> FALSE, bytes |-> <<>>]

TemplateFiles == {TemplateA, TemplateB, TemplateNone, TemplateTwice, TemplateGone}

\* the file as the process finds it at startup, and as the operator has left
\* it when a reload reads it (the operator signals after editing the file)
StartupFiles == TemplateFiles \ {TemplateB}
ReloadFiles == TemplateFiles \ {TemplateA}

\* the first two fragments of every template file that has two
FragmentPairs ==
  { SubSeq(BytesSplit(f.bytes, Placeholder), 1, 2) :
      f \in { g \in TemplateFiles :
                g.readable /\ Len(BytesSplit(g.bytes, Placeholder)) >= 2 } }

\* request inputs
URLs == { <<"/">>, <<"/", "a">>, <<"/", "b", "/">> }
IfNoneMatch == { <<>>, <<"A", "1">>, <<"b", "2">> }
Gzip_AE == <<"g", "z", "i", "p">>
AcceptEncodings == { <<>>, <<"x", ",">> \o Gzip_AE }

\* the index descriptor the walk finds, in the home directory
IndexEntries ==
  << [Name |-> <<65>>, Summary |-> <<83, 49>>],
     [Name |-> <<66>>, Summary |-> <<83, 50>>] >>
HomeIndexKey == Join(<<root, optHomeDir, optDefault>>) \o JsonExt
IndexTrees == { [k \in {HomeIndexKey} |-> IndexEntries] }

\* ------------------------------------------------------------ renderer
NoPage == [path |-> <<>>, content |-> <<>>, hash |-> <<>>, epoch |-> 0, by |-> 0]
NoErr == [kind |-> "none", status |-> 0, msg |-> <<>>]

PageOf(content, hash) ==
  [kind |-> "page", content |-> content, hash |-> hash, status |-> 0, msg |-> <<>>]
PageErrorOf(status, msg) ==
  [kind |-> "pageError", content |-> <<>>, hash |-> <<>>, status |-> status, msg |-> msg]
OtherError ==
  [kind |-> "error", content |-> <<>>, hash |-> <<>>, status |-> 0, msg |-> <<>>]

\* GetPage(abs): a Page (content and fingerprint), a *PageError (status and
\* message) or another error.  The renderer is outside the repository's core.
\* The documents on disk: the default document of the root renders to a page
\* with a fingerprint or cannot be read; every other document renders to a
\* page without fingerprint or is missing.
GetPageOutcomes(abs) ==
  IF abs = Join(<<root, optDefault>>) \o <<".">> \o optExt
    THEN { PageOf(<<7>>, <<"a", "1">>), OtherError }
  ELSE { PageOf(<<8, 8>>, <<>>), PageErrorOf(404, <<78, 70>>) }


\* ------------------------------------------------------------ state
VARIABLES
  build,       \* which program runs: "main" (src/main.go) or "upublish"
  optDebug,    \* main.go's debug flag: a rendered page is not cached
  proc,        \* "init", "serving", "exited" (log.Fatal) or "crashed"
  tmpl,        \* var tmpl [][]byte
  cache,       \* var cache map[string]*Page
  indexCache,  \* var indexCache map[string][]PageIndex
  sigchan,     \* number of signals buffered in the channel c (capacity 1)
  lpc,         \* the listener goroutine: "none", "wait", "check", "done"
  wk,          \* the request goroutines
  nreq,        \* requests accepted so far
  epoch,       \* history: number of times the page cache was replaced
  client,      \* the request headers of the client the run follows
  first        \* history: per document path, the first response completed
               \* since the last reload began

vars ==
  <<build, optDebug, proc, tmpl, cache, indexCache, sigchan, lpc, wk, nreq,
    epoch, client, first>>

EmptyMap == [k \in {} |-> NoPage]
NoFirst == [k \in {} |-> [page |-> NoPage, status |-> 0, body |-> <<>>]]

\* a request goroutine that is not handling a request
IdleWorker ==
  [ pc |-> "idle",      \* position in the handler
    fin |-> "none",     \* how the last handler run ended: "ok" or "panic"
    url |-> <<>>, inm |-> <<>>, ae |-> <<>>,       \* the request
    abs |-> <<>>,       \* the resolved path
    page |-> NoPage, err |-> NoErr, idx |-> <<>>,  \* page, err, pIdx
    status |-> 0,       \* status line sent (0: none yet)
    hset |-> {},        \* names of the headers set on w.Header()
    etag |-> <<>>, clen |-> 0,                     \* Etag and Content-Length values
    body |-> <<>>,      \* body bytes written to the connection
    written |-> 0,      \* bytes handed to w.Write so far
    buf |-> <<>>,       \* the local buffer b (bytes handed to it so far)
    n0 |-> 0,           \* len(tmpl[0]) as read for Content-Length
    gen |-> 0,          \* the map a store in progress writes to
    pfx |-> <<>>, sfx |-> <<>>,                    \* history: fragments used
    hit |-> FALSE, rendered |-> FALSE,             \* history: cache hit, GetPage called
    late |-> FALSE,     \* history: began after `first` had its path
    disturbed |-> FALSE ]  \* history: a reload step ran during the request

Init ==
  /\ build \in {"main", "upublish"}
  /\ optDebug \in IF build = "main" THEN BOOLEAN ELSE {FALSE}
  /\ proc = "init"
  /\ tmpl = <<>>
  /\ cache = EmptyMap
  /\ indexCache = [k \in {} |-> <<>>]
  /\ sigchan = 0
  /\ lpc = "none"
  /\ wk = [w \in Workers |-> IdleWorker]
  /\ nreq = 0
  /\ epoch = 0
  /\ client \in [inm : IfNoneMatch, ae : AcceptEncodings]
  /\ first = NoFirst

\* ------------------------------------------------------------ startup
\* main(): setupTemplate (fatal on an unreadable or invalid template), then
\* in upublish setupSignals and setupIndexes, then ListenAndServe.
Startup ==
  /\ proc = "init"
  /\ \E f \in StartupFiles, tree \in IndexTrees :
       LET t == BytesSplit(f.bytes, Placeholder)
       IN  IF ~f.readable
             THEN /\ proc' = "exited"
                  /\ UNCHANGED <<tmpl, lpc, indexCache>>
           ELSE IF Len(t) # 2
             THEN /\ proc' = "exited"
                  /\ tmpl' = t
                  /\ UNCHANGED <<lpc, indexCache>>
           ELSE /\ proc' = "serving"
                /\ tmpl' = t
                /\ lpc' = IF build = "upublish" THEN "wait" ELSE "none"
                /\ indexCache' = IF build = "upublish" THEN tree ELSE indexCache
  /\ UNCHANGED <<client, build, optDebug, cache, sigchan, wk, nreq, epoch, first>>

\* ------------------------------------------------------------ reload
\* The operator sends SIGUSR1.  signal.Notify does not block: the signal is
\* dropped when the channel's one slot is taken.
Signal ==
  /\ proc = "serving"
  /\ build = "upublish"
  /\ sigchan' = IF sigchan < 1 THEN sigchan + 1 ELSE sigchan
  /\ UNCHANGED <<client, build, optDebug, proc, tmpl, cache, indexCache, lpc, wk, nreq,
                 epoch, first>>

\* a reload step ends the period "no reload has happened since"
ReloadSeen ==
  [w \in Workers |->
     [wk[w] EXCEPT !.late = FALSE, !.disturbed = @ \/ wk[w].pc # "idle"]]

\* the goroutine's position after setupTemplate returned
AfterReload == "done"

\* <-c, then setupTemplate up to the assignment of tmpl
ReloadLoad ==
  /\ proc = "serving"
  /\ lpc = "wait"
  /\ sigchan > 0
  /\ sigchan' = sigchan - 1
  /\ \E f \in ReloadFiles :
       IF ~f.readable
         THEN /\ proc' = "exited"
              /\ UNCHANGED <<tmpl, lpc>>
       ELSE /\ tmpl' = BytesSplit(f.bytes, Placeholder)
            /\ lpc' = "check"
            /\ proc' = proc
  /\ wk' = ReloadSeen
  /\ first' = NoFirst
  /\ UNCHANGED <<client, build, optDebug, cache, indexCache, nreq, epoch>>

\* a reload that walks the tree again and finds no descriptor
ReloadFinishRewalk ==
  /\ proc = "serving"
  /\ lpc = "check"
  /\ IF Len(tmpl) # 2
       THEN /\ proc' = "exited"
            /\ UNCHANGED <<cache, epoch, lpc, indexCache>>
     ELSE /\ cache' = EmptyMap
          /\ indexCache' = [k \in {} |-> <<>>]
          /\ epoch' = epoch + 1
          /\ lpc' = AfterReload
          /\ proc' = proc
  /\ wk' = ReloadSeen
  /\ first' = NoFirst
  /\ UNCHANGED <<client, build, optDebug, tmpl, sigchan, nreq>>

\* a reload that logs an invalid template and goes on
ReloadFinishTolerant ==
  /\ proc = "serving"
  /\ lpc = "check"
  /\ cache' = EmptyMap
  /\ epoch' = epoch + 1
  /\ lpc' = AfterReload
  /\ proc' = proc
  /\ wk' = ReloadSeen
  /\ first' = NoFirst
  /\ UNCHANGED <<client, build, optDebug, tmpl, indexCache, sigchan, nreq>>

\* setupTemplate from the length check on: fatal, or the new page cache
ReloadFinish ==
  /\ proc = "serving"
  /\ lpc = "check"
  /\ IF Len(tmpl) # 2
       THEN /\ proc' = "exited"
            /\ UNCHANGED <<cache, epoch, lpc>>
     ELSE /\ cache' = EmptyMap
          /\ epoch' = epoch + 1
          /\ lpc' = AfterReload
          /\ proc' = proc
  /\ wk' = ReloadSeen
  /\ first' = NoFirst
  /\ UNCHANGED <<client, build, optDebug, tmpl, indexCache, sigchan, nreq>>


\* ------------------------------------------------------------ request handling
\* renderPage / renderer, path resolution: the candidate path of a URL
Candidate(url) ==
  LET sp == Split(url)
      p == IF sp[1] = <<>> THEN optHomeDir ELSE sp[1]
      file == IF sp[2] = <<>> THEN optDefault ELSE sp[2]
  IN  Join(<<root, p, file>>)

\* abs + "." + *optExt
DocPath(url) == Candidate(url) \o <<".">> \o optExt

\* the index key taken from the document path (extension appended first)
IndexKeyOfDocument(url) == DocPath(url) \o JsonExt

\* abs + ".json"
IndexKey(url) == Candidate(url) \o JsonExt

\* the If-None-Match test made case-sensitive
NotModifiedExact(inm, hash) ==
  /\ build = "upublish" => Len(hash) > 0
  /\ inm = hash

\* write(): the If-None-Match test.  part_000 makes it only for a non-empty
\* hash, main.go always.
NotModified(inm, hash) ==
  /\ build = "upublish" => Len(hash) > 0
  /\ EqualFold(inm, hash)

\* write(): whether the Etag header is set when the response is not a 304
SetsEtag(hash) == build = "upublish" => Len(hash) > 0

\* write(): strings.Contains(r.Header.Get("Accept-Encoding"), "gzip")
Negotiated(ae) == Contains(ae, Gzip_AE)

\* w.WriteHeader(code)
WriteHeader(r, code) == [r EXCEPT !.status = IF @ = 0 THEN code ELSE @]

\* w.Write(data) of net/http: sends the status line first when none was sent,
\* and refuses data beyond a declared Content-Length
ConnWrite(r, data) ==
  LET r1 == WriteHeader(r, 200)
      total == r.written + Len(data)
      over == "Content-Length" \in r.hset /\ total > r.clen
  IN  [r1 EXCEPT !.written = total,
                 !.body = IF over THEN @ ELSE @ \o data]

\* the handler returned
Returned(r) == [r EXCEPT !.pc = "idle", !.fin = "ok"]

\* the handler panicked (index out of range); net/http drops the connection
Panic(r) == [r EXCEPT !.pc = "idle", !.fin = "panic"]

\* write() from its start to its first read of tmpl
WritePrelude(r) ==
  LET h == r.page.hash
      tagged == IF SetsEtag(h)
                  THEN [r EXCEPT !.hset = @ \cup {"Etag"}, !.etag = h]
                ELSE r
      typed == [tagged EXCEPT !.hset = @ \cup {"Content-Type"}]
  IN  IF NotModified(r.inm, h) THEN Returned(WriteHeader(r, 304))
      ELSE [typed EXCEPT !.pc = IF Negotiated(r.ae) THEN "gz0" ELSE "cl0"]

\* whether a page just rendered goes to the cache (main.go: if !*optDebug)
Caches == ~(build = "main" /\ optDebug)

\* a failed render remembered in the cache (negative caching)
MissedNegative(r, o, w) ==
  LET pg == [path |-> r.abs, content |-> o.content, hash |-> o.hash,
             epoch |-> epoch, by |-> w]
      r1 == [r EXCEPT !.page = pg, !.rendered = TRUE]
  IN  IF o.kind = "page"
        THEN IF ~(build = "main" /\ optDebug) THEN [r1 EXCEPT !.pc = "store"]
             ELSE [r1 EXCEPT !.pc = "cl0"]
      ELSE [r1 EXCEPT !.err = [kind |-> o.kind, status |-> o.status, msg |-> o.msg],
                      !.pc = "store"]

\* the handler after a cache miss and GetPage's outcome o
Missed(r, o, w) ==
  IF o.kind = "page"
    THEN LET pg == [path |-> r.abs, content |-> o.content, hash |-> o.hash,
                    epoch |-> epoch, by |-> w]
             r1 == [r EXCEPT !.page = pg, !.rendered = TRUE]
         IN  IF Caches THEN [r1 EXCEPT !.pc = "store"] ELSE WritePrelude(r1)
  ELSE [r EXCEPT !.err = [kind |-> o.kind, status |-> o.status, msg |-> o.msg],
                 !.rendered = TRUE, !.pc = "err0"]

\* history: a document response is complete
Completed(r) == r.pc = "idle" /\ r.fin = "ok" /\ r.page # NoPage

\* the worker's new state, and the history of first responses
Becomes(w, r) ==
  /\ wk' = [wk EXCEPT ![w] = r]
  /\ first' = IF Completed(r) /\ r.abs \notin DOMAIN first
                THEN (r.abs :> [page |-> r.page, status |-> r.status, body |-> r.body])
                       @@ first
              ELSE first

\* Another goroutine is inside a write to the map this one accesses.  The map
\* has no lock, so the access is a data race: it may behave as if it were
\* alone, miss a key that is present, lose the insert, or bring the process
\* down.
Racing(w) ==
  \E o \in Workers \ {w} : wk[o].pc = "storing" /\ wk[o].gen = epoch

\* page, ok = cache[abs] and, on a miss, GetPage(abs)
Lookup(w, r) ==
  \/ /\ r.abs \in DOMAIN cache
     /\ Becomes(w, WritePrelude([r EXCEPT !.page = cache[r.abs], !.hit = TRUE]))
     /\ proc' = proc
  \/ /\ r.abs \notin DOMAIN cache \/ Racing(w)
     /\ \E o \in GetPageOutcomes(r.abs) : Becomes(w, Missed(r, o, w))
     /\ proc' = proc
  \/ /\ Racing(w)
     /\ proc' = "crashed"
     /\ UNCHANGED <<wk, first>>

\* a new request, its inputs
NewRequest(url, inm, ae) == [IdleWorker EXCEPT !.url = url, !.inm = inm, !.ae = ae]

\* part_000: renderPage up to the cache lookup
renderPage(w) ==
  /\ proc = "serving"
  /\ build = "upublish"
  /\ wk[w].pc = "idle"
  /\ nreq < MaxRequests
  /\ nreq' = nreq + 1
  /\ \E url \in URLs :
       LET r0 == NewRequest(url, client.inm, client.ae)
       IN  IF IndexKey(url) \in DOMAIN indexCache
             THEN /\ Becomes(w, [r0 EXCEPT !.abs = IndexKey(url),
                                           !.idx = indexCache[IndexKey(url)],
                                           !.pc = "idx0"])
                  /\ proc' = proc
           ELSE Lookup(w, [r0 EXCEPT !.abs = DocPath(url),
                                     !.late = DocPath(url) \in DOMAIN first])
  /\ UNCHANGED <<client, build, optDebug, tmpl, cache, indexCache, sigchan, lpc, epoch>>

\* main.go: renderer up to the cache lookup
renderer(w) ==
  /\ proc = "serving"
  /\ build = "main"
  /\ wk[w].pc = "idle"
  /\ nreq < MaxRequests
  /\ nreq' = nreq + 1
  /\ \E url \in URLs :
       Lookup(w, [NewRequest(url, client.inm, client.ae) EXCEPT
                    !.abs = DocPath(url),
                    !.late = DocPath(url) \in DOMAIN first])
  /\ UNCHANGED <<client, build, optDebug, tmpl, cache, indexCache, sigchan, lpc, epoch>>

\* cache[abs] = page begins: the goroutine loads the map and enters the write
StoreBegin(w) ==
  /\ proc = "serving"
  /\ wk[w].pc = "store"
  /\ \/ /\ Becomes(w, [wk[w] EXCEPT !.pc = "storing", !.gen = epoch])
        /\ proc' = proc
     \/ /\ Racing(w)
        /\ proc' = "crashed"
        /\ UNCHANGED <<wk, first>>
  /\ UNCHANGED <<client, build, optDebug, tmpl, cache, indexCache, sigchan, lpc, nreq, epoch>>

\* a cache that keeps one page only
StoredAlone(abs, page, gen) ==
  IF gen = epoch THEN (abs :> page) ELSE cache

\* the map after cache[abs] = page by a goroutine that loaded map `gen`
Stored(abs, page, gen) ==
  IF gen = epoch THEN (abs :> page) @@ cache ELSE cache

\* cache[abs] = page ends; write() starts
StoreEnd(w) ==
  /\ proc = "serving"
  /\ wk[w].pc = "storing"
  /\ \/ /\ cache' = Stored(wk[w].abs, wk[w].page, wk[w].gen)
        /\ Becomes(w, WritePrelude(wk[w]))
        /\ proc' = proc
     \/ /\ Racing(w)
        /\ cache' = cache
        /\ Becomes(w, WritePrelude(wk[w]))
        /\ proc' = proc
     \/ /\ Racing(w)
        /\ proc' = "crashed"
        /\ UNCHANGED <<wk, first, cache>>
  /\ UNCHANGED <<client, build, optDebug, tmpl, indexCache, sigchan, lpc, nreq, epoch>>


\* ------------------------------------------------------------ response writing
\* what a step of a request goroutine leaves alone
WorkerFrame ==
  /\ proc' = proc
  /\ UNCHANGED <<client, build, optDebug, tmpl, cache, indexCache, sigchan, lpc, nreq,
                 epoch>>

\* write(), gzip branch: gz.Write(tmpl[0]); gz.Write(page.Content)
GzFirst(w) ==
  /\ proc = "serving"
  /\ wk[w].pc = "gz0"
  /\ Becomes(w, [wk[w] EXCEPT !.buf = tmpl[1] \o wk[w].page.content,
                              !.pfx = tmpl[1],
                              !.pc = "gz1"])
  /\ WorkerFrame

\* the gzip branch closing the writer before the suffix is written
GzCloseEarly(r, suffix) ==
  LET z == Gzip(r.buf)
      r1 == [r EXCEPT !.sfx = suffix,
                      !.hset = @ \cup {"Content-Encoding", "Content-Length"},
                      !.clen = Len(z)]
  IN  [ConnWrite(r1, z) EXCEPT !.pc = "idle", !.fin = "ok"]

\* the gzip branch after gz.Write(suffix): Close, the two headers, b.WriteTo(w)
GzClose(r, suffix) ==
  LET z == Gzip(r.buf \o suffix)
      r1 == [r EXCEPT !.sfx = suffix,
                      !.hset = @ \cup {"Content-Encoding", "Content-Length"},
                      !.clen = Len(z)]
  IN  Returned(ConnWrite(r1, z))

\* write(), gzip branch: gz.Write(tmpl[1]) to the end
GzSecond(w) ==
  /\ proc = "serving"
  /\ wk[w].pc = "gz1"
  /\ Becomes(w, IF Len(tmpl) < 2 THEN Panic(wk[w]) ELSE GzClose(wk[w], tmpl[2]))
  /\ WorkerFrame

\* write(), plain branch: len(tmpl[0]) of the Content-Length sum
LenFirst(w) ==
  /\ proc = "serving"
  /\ wk[w].pc = "cl0"
  /\ Becomes(w, [wk[w] EXCEPT !.n0 = Len(tmpl[1]), !.pc = "cl1"])
  /\ WorkerFrame

\* the Content-Length header of the plain branch
ContentLength(r, n1) ==
  [r EXCEPT !.hset = @ \cup {"Content-Length"},
            !.clen = r.n0 + Len(r.page.content) + n1,
            !.pc = "w0"]

\* write(), plain branch: len(tmpl[1]) and the header
LenSecond(w) ==
  /\ proc = "serving"
  /\ wk[w].pc = "cl1"
  /\ Becomes(w, IF Len(tmpl) < 2 THEN Panic(wk[w])
                ELSE ContentLength(wk[w], Len(tmpl[2])))
  /\ WorkerFrame

\* write(), plain branch: w.Write(tmpl[0])
WriteFirst(w) ==
  /\ proc = "serving"
  /\ wk[w].pc = "w0"
  /\ Becomes(w, [ConnWrite(wk[w], tmpl[1]) EXCEPT !.pfx = tmpl[1], !.pc = "w1"])
  /\ WorkerFrame

\* write(), plain branch: w.Write(page.Content); w.Write(tmpl[1])
WriteSecond(w) ==
  /\ proc = "serving"
  /\ wk[w].pc = "w1"
  /\ LET r1 == ConnWrite(wk[w], wk[w].page.content)
     IN  Becomes(w, IF Len(tmpl) < 2 THEN Panic(r1)
                    ELSE Returned([ConnWrite(r1, tmpl[2]) EXCEPT !.sfx = tmpl[2]]))
  /\ WorkerFrame

\* "<h2>Oops! We've hit a bit of a problem...</h2><p>%v</p>", shortened
ErrOpen == <<60, 112, 62>>
ErrClose == <<60, 47, 112, 62>>
ErrFmt(msg) == ErrOpen \o msg \o ErrClose

\* "Page not available", shortened
NotAvailable == <<80, 110, 97>>

StatusInternalServerError == 500

\* writeError: the status and the paragraph of an error
ErrStatus(e) == IF e.kind = "pageError" THEN e.status ELSE StatusInternalServerError
ErrMessage(e) == IF e.kind = "pageError" THEN e.msg ELSE NotAvailable

\* writeError up to the paragraph: Content-Type, b.Write(tmpl[0]), WriteHeader
ErrFirst(w) ==
  /\ proc = "serving"
  /\ wk[w].pc = "err0"
  /\ LET r == wk[w]
         r1 == [r EXCEPT !.hset = @ \cup {"Content-Type"},
                         !.buf = tmpl[1] \o ErrFmt(ErrMessage(r.err)),
                         !.pfx = tmpl[1],
                         !.pc = "err1"]
     IN  Becomes(w, WriteHeader(r1, ErrStatus(r.err)))
  /\ WorkerFrame

\* writeError: b.Write(tmpl[1]); b.WriteTo(w)
ErrSecond(w) ==
  /\ proc = "serving"
  /\ wk[w].pc = "err1"
  /\ Becomes(w, IF Len(tmpl) < 2 THEN Panic(wk[w])
                ELSE Returned([ConnWrite(wk[w], wk[w].buf \o tmpl[2])
                                 EXCEPT !.sfx = tmpl[2]]))
  /\ WorkerFrame

\* "<h2>Blog</h2>\n" and the pieces of "<h3>%v</h3>\n<p>%v</p>\n", shortened
Heading == <<72, 10>>
BlockOpen == <<91>>
BlockMid == <<124>>
BlockClose == <<93, 10>>

Block(e) == BlockOpen \o e.Name \o BlockMid \o e.Summary \o BlockClose

RECURSIVE Blocks(_, _)
\* renderIndex's loop: for i := 0; i < len(pIdx); i++
Blocks(pIdx, i) ==
  IF i > Len(pIdx) THEN <<>> ELSE Block(pIdx[i]) \o Blocks(pIdx, i + 1)

\* renderIndex: w.Write(tmpl[0]), the heading and the loop
IdxFirst(w) ==
  /\ proc = "serving"
  /\ wk[w].pc = "idx0"
  /\ LET r1 == ConnWrite(wk[w], tmpl[1])
         r2 == ConnWrite(r1, Heading)
     IN  Becomes(w, [ConnWrite(r2, Blocks(wk[w].idx, 1))
                       EXCEPT !.pfx = tmpl[1], !.pc = "idx1"])
  /\ WorkerFrame

\* renderIndex: w.Write(tmpl[1])
IdxSecond(w) ==
  /\ proc = "serving"
  /\ wk[w].pc = "idx1"
  /\ Becomes(w, IF Len(tmpl) < 2 THEN Panic(wk[w])
                ELSE Returned([ConnWrite(wk[w], tmpl[2]) EXCEPT !.sfx = tmpl[2]]))
  /\ WorkerFrame

\* ------------------------------------------------------------ specification
Next ==
  \/ Startup
  \/ Signal
  \/ ReloadLoad
  \/ ReloadFinish
  \/ \E w \in Workers : renderPage(w)
  \/ \E w \in Workers : renderer(w)
  \/ \E w \in Workers : StoreBegin(w)
  \/ \E w \in Workers : StoreEnd(w)
  \/ \E w \in Workers : GzFirst(w)
  \/ \E w \in Workers : GzSecond(w)
  \/ \E w \in Workers : LenFirst(w)
  \/ \E w \in Workers : LenSecond(w)
  \/ \E w \in Workers : WriteFirst(w)
  \/ \E w \in Workers : WriteSecond(w)
  \/ \E w \in Workers : ErrFirst(w)
  \/ \E w \in Workers : ErrSecond(w)
  \/ \E w \in Workers : IdxFirst(w)
  \/ \E w \in Workers : IdxSecond(w)

Spec == Init /\ [][Next]_vars


\* ------------------------------------------------------------ claims
\* C1: once a first request for a document path has completed and no reload
\* has run since, a later request for that path does not invoke the renderer
\* and gets the first response's status and body.  Stated for the builds
\* that cache (main.go's debug flag, which turns the cache off, excluded) and
\* for requests with the first request's headers.
C1_ServedFromCache ==
  \A w \in Workers :
    (Caches /\ wk[w].late) =>
      /\ ~wk[w].rendered
      /\ Completed(wk[w]) =>
           /\ wk[w].status = first[wk[w].abs].status
           /\ wk[w].body = first[wk[w].abs].body

\* C2: after the reload handler has finished, the page cache holds no entry
\* whose render began before the cache was cleared.
C2_NoStaleEntryAfterReload ==
  lpc = "done" => \A p \in DOMAIN cache : cache[p].epoch = epoch

\* C3: the prefix and the suffix of a response come from the same template.
C3_FragmentsOfOneTemplate ==
  \A w \in Workers :
    (wk[w].pfx # <<>> /\ wk[w].sfx # <<>>) =>
      <<wk[w].pfx, wk[w].sfx>> \in FragmentPairs


\* a response to a request for a document that was obtained (from the cache
\* or from the renderer) has been started
Answered(r) == r.page # NoPage /\ r.status # 0

ContentHeaders == {"Etag", "Content-Type", "Content-Length", "Content-Encoding"}

\* C4 as claimed, for every Page: If-None-Match equal to the fingerprint
\* ignoring case gives 304 without body and content headers; otherwise the
\* response carries Etag, Content-Type and a body.
C4_ConditionalRequest ==
  \A w \in Workers :
    Answered(wk[w]) =>
      IF EqualFold(wk[w].inm, wk[w].page.hash)
        THEN /\ wk[w].status = 304
             /\ wk[w].body = <<>>
             /\ wk[w].hset \cap ContentHeaders = {}
      ELSE /\ wk[w].status = 200
           /\ "Etag" \in wk[w].hset /\ wk[w].etag = wk[w].page.hash
           /\ "Content-Type" \in wk[w].hset
           /\ wk[w].written > 0

\* C4 amended: the same, for a Page whose fingerprint is not empty.
C4_ConditionalRequestWithFingerprint ==
  \A w \in Workers :
    (Answered(wk[w]) /\ Len(wk[w].page.hash) > 0) =>
      IF EqualFold(wk[w].inm, wk[w].page.hash)
        THEN /\ wk[w].status = 304
             /\ wk[w].body = <<>>
             /\ wk[w].hset \cap ContentHeaders = {}
      ELSE /\ wk[w].status = 200
           /\ "Etag" \in wk[w].hset /\ wk[w].etag = wk[w].page.hash
           /\ "Content-Type" \in wk[w].hset
           /\ wk[w].written > 0

\* C4 witness: a 304 answer to an If-None-Match that differs from the
\* fingerprint in case only, and a full answer to one that does not match
C4_Witness ==
  \E w \in Workers :
    /\ Answered(wk[w])
    /\ wk[w].status = 304
    /\ wk[w].inm # wk[w].page.hash

\* a document response written by write() with the template untouched by a
\* reload while the request ran
Composed(r) ==
  /\ r.page # NoPage /\ r.pc = "idle" /\ r.fin = "ok" /\ r.status = 200
  /\ ~r.disturbed

\* C5: for one Page and one pair of fragments, the gzip response decompresses
\* to the body of the plain response, which is prefix + content + suffix; the
\* gzip response alone carries Content-Encoding.
C5_GzipSameAsPlain ==
  \A w \in Workers :
    LET r == wk[w]
        whole == r.pfx \o r.page.content \o r.sfx
    IN  Composed(r) =>
          IF Negotiated(r.ae)
            THEN /\ "Content-Encoding" \in r.hset
                 /\ Gunzip(r.body) = whole
                 /\ r.body # whole
          ELSE /\ "Content-Encoding" \notin r.hset
               /\ r.body = whole

\* C5 witness: a gzip response of a page with content has been written
C5_Witness ==
  \E w \in Workers :
    /\ Composed(wk[w])
    /\ Negotiated(wk[w].ae)
    /\ Len(wk[w].page.content) > 1
    /\ Len(wk[w].body) > 0


\* C6: a request for "/" resolves to the default document of the home
\* directory, <root>/<home>/<default>.<ext>, or to its index key.
C6_RootResolvesToHome ==
  \A w \in Workers :
    wk[w].url = <<"/">> =>
      wk[w].abs \in { Join(<<root, optHomeDir, optDefault>>) \o <<".">> \o optExt,
                      Join(<<root, optHomeDir, optDefault>>) \o JsonExt }

\* the handler of a request whose render failed is over
ErrorAnswered(r) == r.err.kind # "none" /\ r.pc = "idle" /\ r.fin # "none"

\* C7: the response to a failed render is not compressed, has the status of
\* the failure (500 when it is not a PageError) and the body prefix + error
\* paragraph with the failure's message + suffix (a prefix and a suffix of
\* the template files; whether of the same file is C3's matter).
C7_ErrorPage ==
  \A w \in Workers :
    LET r == wk[w]
    IN  ErrorAnswered(r) =>
          /\ "Content-Encoding" \notin r.hset
          /\ r.status = IF r.err.kind = "pageError" THEN r.err.status ELSE 500
          /\ \E t, u \in FragmentPairs :
               r.body = t[1]
                        \o ErrFmt(IF r.err.kind = "pageError" THEN r.err.msg
                                  ELSE NotAvailable)
                        \o u[2]

\* every cache entry is a page the renderer returned for the entry's path
CacheHoldsRenderedPages ==
  \A p \in DOMAIN cache :
    /\ cache[p].path = p
    /\ \E o \in GetPageOutcomes(p) :
         o.kind = "page" /\ o.content = cache[p].content /\ o.hash = cache[p].hash

\* a request whose render failed has no page and never reaches the store
FailedRequestStoresNothing ==
  \A w \in Workers :
    wk[w].err.kind # "none" =>
      /\ wk[w].page = NoPage
      /\ wk[w].pc \notin {"store", "storing"}
      /\ ~wk[w].hit

\* the step in which a render fails, and the steps of the error response,
\* leave the page cache as it was
FailureKeepsCache ==
  \A w \in Workers :
    (wk'[w].err.kind # "none" /\ wk'[w].pc # wk[w].pc) => cache' = cache

\* C8: a failed render leaves the page cache unchanged, and a path has a
\* cache entry only from a render that succeeded.
C8_FailedRenderNotCached ==
  /\ [](CacheHoldsRenderedPages /\ FailedRequestStoresNothing)
  /\ [][FailureKeepsCache]_vars

\* C8 witness: an error response is complete, its path is not cached and
\* another path is
C8_Witness ==
  \E w \in Workers :
    /\ ErrorAnswered(wk[w])
    /\ wk[w].fin = "ok"
    /\ wk[w].abs \notin DOMAIN cache
    /\ cache # EmptyMap

\* C9: an index listing is prefix, heading, one block per entry of the
\* descriptor in its order, suffix.
C9_IndexListing ==
  \A w \in Workers :
    LET r == wk[w]
    IN  (r.idx # <<>> /\ r.pc = "idle" /\ r.fin # "none") =>
          \E t, u \in FragmentPairs :
            r.body = t[1] \o Heading \o Blocks(indexCache[r.abs], 1) \o u[2]

\* C10: while the process serves, a delivered signal always has a listener
\* that will receive it.
C10_ListenerStaysActive ==
  (proc = "serving" /\ sigchan > 0) => lpc \in {"wait", "check"}

\* C11: while the process serves requests, the template store holds exactly
\* two fragments, whatever template file a startup or a reload has loaded.
C11_TwoFragmentsVisible ==
  proc = "serving" => Len(tmpl) = 2

\* a goroutine is inside cache[abs] = page on the map the program uses
Writing(o) == wk[o].pc = "storing" /\ wk[o].gen = epoch

\* a step in which a handler looks a document up in the page cache
LookupStep ==
  /\ nreq' # nreq
  /\ \A w \in Workers : ~(wk[w].pc = "idle" /\ wk'[w].pc = "idx0")

\* C12: no goroutine reads the page cache, begins to write it or replaces it
\* while another goroutine is inside a write to it.
C12_CacheAccessExclusive ==
  [][ /\ LookupStep => ~\E o \in Workers : Writing(o)
      /\ \A w \in Workers :
           (wk[w].pc = "store" /\ wk'[w].pc = "storing")
             => ~\E o \in Workers \ {w} : Writing(o)
      /\ epoch' # epoch => ~\E o \in Workers : Writing(o) ]_vars

\* a complete uncompressed 200 response for a document
PlainAnswered(r) ==
  /\ Completed(r)
  /\ r.status = 200
  /\ "Content-Length" \in r.hset
  /\ "Content-Encoding" \notin r.hset

\* C13: in a complete uncompressed success response Content-Length is the
\* number of body bytes written, which is the length of the prefix written
\* plus the content plus the suffix written; reloads may interleave.
C13_ContentLengthExact ==
  \A w \in Workers :
    PlainAnswered(wk[w]) =>
      /\ wk[w].clen = Len(wk[w].body)
      /\ wk[w].clen = Len(wk[w].pfx) + Len(wk[w].page.content) + Len(wk[w].sfx)

\* both goroutines missed the cache for the same path and rendered a page,
\* with no reload begun
ColdPair ==
  /\ Caches
  /\ epoch = 0 /\ lpc \in {"none", "wait"}
  /\ \A w \in Workers :
       /\ wk[w].rendered /\ wk[w].page # NoPage
       /\ wk[w].abs = wk[1].abs

\* C14: two goroutines that missed the cache for the same cold path both
\* complete with a success response for the page they rendered themselves,
\* and the cache then holds the path with one of the two pages (the one
\* stored last).
C14_ColdRaceLastWriteWins ==
  ColdPair =>
    /\ proc # "crashed"
    /\ (\A w \in Workers : wk[w].pc = "idle") =>
         /\ \A w \in Workers :
              /\ wk[w].fin = "ok"
              /\ wk[w].status \in {200, 304}
              /\ wk[w].page.by = w
         /\ wk[1].abs \in DOMAIN cache
         /\ cache[wk[1].abs] \in {wk[w].page : w \in Workers}

\* the request of goroutine record r was resolved index first
IndexFirst(r) ==
  LET key == Candidate(r.url) \o JsonExt
  IN  IF key \in DOMAIN indexCache
        THEN /\ r.abs = key
             /\ r.idx = indexCache[key]
             /\ r.page = NoPage /\ r.err = NoErr
             /\ ~r.rendered /\ ~r.hit
             /\ r.fin = "ok" =>
                  r.body = r.pfx \o Heading \o Blocks(r.idx, 1) \o r.sfx
      ELSE /\ r.abs = Candidate(r.url) \o <<".">> \o optExt
           /\ r.idx = <<>>

\* a step of a handler that answers with a listing
ListingStep(w) ==
  /\ wk'[w].pc # wk[w].pc
  /\ {wk[w].pc, wk'[w].pc} \cap {"idx0", "idx1"} # {}

\* C15: a request whose candidate path plus ".json" is a key of the index
\* cache is answered with the listing, without a page-cache lookup, a render
\* or a change of the page cache; any other request uses the document path
\* (candidate plus the source extension).
C15_IndexBeforeDocument ==
  /\ [](\A w \in Workers : wk[w].url # <<>> => IndexFirst(wk[w]))
  /\ [][\A w \in Workers : ListingStep(w) => cache' = cache]_vars

\* a listing was answered in full while the page cache held an entry, and
\* another goroutine handled a document
C15_Witness ==
  \E w \in Workers, o \in Workers :
    /\ wk[w].idx # <<>> /\ wk[w].pc = "idle" /\ wk[w].fin = "ok"
    /\ wk[o].page # NoPage
    /\ cache # EmptyMap

\* C16: once the process serves, no step (request or reload) changes the
\* index cache.
C16_IndexCacheImmutable ==
  [][proc = "serving" => indexCache' = indexCache]_vars

\* a reload has completed and a listing was then answered from the index
\* found at startup, inside the new template
C16_Witness ==
  /\ lpc = AfterReload /\ epoch = 1
  /\ \E w \in Workers :
       /\ wk[w].pc = "idle" /\ wk[w].fin = "ok" /\ ~wk[w].disturbed
       /\ wk[w].idx = IndexEntries
       /\ wk[w].pfx = tmpl[1] /\ tmpl[1] # BytesSplit(TemplateA.bytes, Placeholder)[1]

\* C17: a step either keeps every cached path (the set only grows) or is the
\* reload's clear, which leaves no entry at all.
C17_CacheGrowsUntilCleared ==
  [][ \/ DOMAIN cache \subseteq DOMAIN cache'
      \/ cache' = EmptyMap /\ epoch' = epoch + 1 ]_vars

\* two documents were rendered and answered before the reload, which then
\* cleared the cache
C17_Witness ==
  /\ epoch = 1 /\ cache = EmptyMap
  /\ \A w \in Workers :
       /\ Completed(wk[w]) /\ wk[w].rendered /\ ~wk[w].disturbed
       /\ wk[w].page.epoch = 0
  /\ wk[1].abs # wk[2].abs

\* C18: a complete document response to a request without If-None-Match is
\* never a 304: it has status 200 and a body, whatever the fingerprint.
C18_UnconditionalGetsBody ==
  \A w \in Workers :
    (Completed(wk[w]) /\ wk[w].inm = <<>>) =>
      wk[w].status = 200 /\ wk[w].body # <<>>

\* C19: a reload that cannot use the template file ends the process with the
\* page cache as it was; a reload completes only with a two-fragment template
\* and an empty cache; nothing happens after the process has ended.
C19_FailedReloadAborts ==
  [][ /\ proc # "exited"
      /\ (proc' = "exited" /\ proc = "serving") =>
           cache' = cache /\ epoch' = epoch
      /\ (lpc' = AfterReload /\ lpc # AfterReload) =>
           Len(tmpl') = 2 /\ cache' = EmptyMap
      /\ sigchan' < sigchan => (proc' = "exited" \/ lpc' = "check") ]_vars

\* a reload found an invalid template and ended the process, the page cache
\* still holding what it held
C19_Witness ==
  /\ proc = "exited" /\ lpc = "check"
  /\ Len(tmpl) # 2
  /\ cache # EmptyMap

====
